---- MODULE Spec2Model ----
(***************************************************************************)
(* A model of utils/split_inouts.py (inout port splitting and cell         *)
(* connection remapping of a Yosys JSON netlist) and of                   *)
(* utils/vpr_io_place.py (IO placement constraints for VPR).               *)
(*                                                                         *)
(* Names are sequences of tokens, so that name + "_$inp" is                *)
(* name \o <<"_$inp">> and the regular expressions of vpr_io_place.py     *)
(* can be computed on them.  A bit of a port, connection or netname is an  *)
(* integer: a net id is >= 0 (isinstance(n, int)), a constant literal     *)
(* (a JSON string) is one of the negative codes below.                     *)
(***************************************************************************)
EXTENDS Integers, Sequences, FiniteSets, TLC

VARIABLES
    \* ---- split_inouts.py: the top module of the design
    design0,      \* the module as loaded (json.load), kept for reference
    ports,        \* module["ports"]: ordered dict, a sequence of [name, direction, bits]
    cells,        \* module["cells"]: cell name -> [port_directions, connections]
    netnames,     \* module["netnames"]: name -> [hide_name, bits]
    net_map,      \* the net map returned by find_and_split_inout_ports
    port_map,     \* the (old name, new name) list returned with it
    remaps,       \* how many times remap_connections has run
    pcA,          \* "idle" | "loaded" | "split" | "remapped" | "error"
    \* ---- get_free_net called on its own
    occupied,     \* the set of used net ids
    prevOccupied, \* the set handed to the last call
    lastFree,     \* what the last call returned
    allocs,       \* number of calls made
    pcF,          \* "idle" | "run" | "error"
    \* ---- vpr_io_place.py: one IoPlace object
    eblif,        \* the signals of the design the eblif file was written from
    inputs,       \* self.inputs
    outputs,      \* self.outputs
    io_net_map,   \* self.net_map: port name -> name before the inout split
    inout_nets,   \* self.inout_nets
    net_to_block, \* self.net_to_block: [loaded, map]; loaded is FALSE for None
    constraints,  \* self.constraints: ordered dict, a sequence of IoConstraint
    rows,         \* the constraint rows printed by output_io_place
    history,      \* the constrain_net calls made so far: [net, loc, comment, ok]
    pcB           \* "idle" | "new" | "ready" | "written" | "conflict" | "error"

varsA == <<design0, ports, cells, netnames, net_map, port_map, remaps, pcA>>
varsF == <<occupied, prevOccupied, lastFree, allocs, pcF>>
varsB == <<eblif, inputs, outputs, io_net_map, inout_nets, net_to_block,
           constraints, rows, history, pcB>>
vars == <<varsA, varsF, varsB>>

(***************************************************************************)
(* Bounds of the model.                                                    *)
(***************************************************************************)
MaxTotalBits == 4    \* bits over all ports and the varied cell connection or netname
MaxNet == 3          \* port net ids are 2..MaxNet (Yosys numbers nets from 2)
MaxRemapRuns == 2    \* runs of remap_connections
MaxId == 6           \* get_free_net alone: occupied ids are 0..MaxId
MaxAllocs == 2       \* get_free_net alone: consecutive allocations
MaxCalls == 2        \* calls of constrain_net on one IoPlace

(***************************************************************************)
(* Bits.                                                                   *)
(***************************************************************************)
ConstOne == -2       \* the constant literal "1"
Placeholder == -3    \* the literal "\"x\"" written for a non-connected bit
IndexError == -99    \* sorted_nets[-1] of an empty list raises

isinstance_int(b) == b >= 0

Range(s) == {s[i] : i \in DOMAIN s}

Suffix(dir) == IF dir = "input" THEN "_$inp" ELSE "_$out"   \* "_$" + dir[:3]
DirKey(dir) == IF dir = "input" THEN "i" ELSE "o"           \* dir[0]
SplitDirs == <<"input", "output">>

(***************************************************************************)
(* Ordered dicts are sequences of records with a name field.               *)
(***************************************************************************)
Keys(d) == {d[i].name : i \in DOMAIN d}
Lookup(d, k) == d[CHOOSE i \in DOMAIN d : d[i].name = k]
Delete(d, k) == SelectSeq(d, LAMBDA e : e.name # k)
\* d[e.name] = e: in place when the key exists, appended otherwise
SetItem(d, e) ==
    IF e.name \in Keys(d)
    THEN [i \in DOMAIN d |-> IF d[i].name = e.name THEN e ELSE d[i]]
    ELSE Append(d, e)
RECURSIVE UpdateFrom(_, _, _)
UpdateFrom(d, new, i) ==
    IF i > Len(new) THEN d ELSE UpdateFrom(SetItem(d, new[i]), new, i + 1)
Update(d, new) == UpdateFrom(d, new, 1)

\* f[k] = v on a dict modelled as a function
Put(f, k, v) == [x \in DOMAIN f \cup {k} |-> IF x = k THEN v ELSE f[x]]
Drop(f, k) == [x \in DOMAIN f \ {k} |-> f[x]]
EmptyFn == [x \in {} |-> 0]

(***************************************************************************)
(* get_port_nets, get_free_net                                             *)
(***************************************************************************)
get_port_nets(port) == {n \in Range(port.bits) : isinstance_int(n)}

SetMin(S) == CHOOSE m \in S : \A x \in S : m <= x
RECURSIVE sorted(_)
sorted(S) == IF S = {} THEN <<>> ELSE <<SetMin(S)>> \o sorted(S \ {SetMin(S)})

\* for i in range(len(nets) - 1) over the sorted list, 1-based here
RECURSIVE FindGap(_, _, _)
FindGap(sorted_nets, i, len) ==
    IF i > len - 1
    THEN sorted_nets[Len(sorted_nets)] + 1
    ELSE IF sorted_nets[i + 1] # sorted_nets[i] + 1
         THEN sorted_nets[i] + 1
         ELSE FindGap(sorted_nets, i + 1, len)

\* get_free_net whose scan starts at the second pair
get_free_net_offbyone(nets) ==
    IF nets = {} THEN IndexError ELSE FindGap(sorted(nets), 2, Cardinality(nets))

get_free_net(nets) ==
    IF nets = {} THEN IndexError ELSE FindGap(sorted(nets), 1, Cardinality(nets))

(***************************************************************************)
(* find_and_split_inout_ports                                              *)
(***************************************************************************)
\* SplitBits with the constant literals left out of the new port
RECURSIVE SplitBits_skipconst(_, _, _, _, _)
SplitBits_skipconst(pbits, k, dir, st, bits) ==
    IF k > Len(pbits) THEN [st |-> st, bits |-> bits]
    ELSE LET n == pbits[k] IN
         IF isinstance_int(n)
         THEN LET mapped_n == get_free_net(st.nets) IN
              IF mapped_n = IndexError
              THEN [st |-> [st EXCEPT !.err = TRUE], bits |-> bits]
              ELSE LET old == IF n \in DOMAIN st.net_map THEN st.net_map[n] ELSE EmptyFn
                       st1 == [st EXCEPT !.net_map = Put(@, n, Put(old, DirKey(dir), mapped_n)),
                                         !.nets = @ \cup {mapped_n}]
                   IN SplitBits_skipconst(pbits, k + 1, dir, st1, Append(bits, mapped_n))
         ELSE SplitBits_skipconst(pbits, k + 1, dir, st, bits)

\* The loop over port["bits"] for one direction.  st carries nets, net_map
\* and the failure flag; bits is the new port's bit list so far.
RECURSIVE SplitBits(_, _, _, _, _)
SplitBits(pbits, k, dir, st, bits) ==
    IF k > Len(pbits) THEN [st |-> st, bits |-> bits]
    ELSE LET n == pbits[k] IN
         IF isinstance_int(n)
         THEN LET mapped_n == get_free_net(st.nets) IN
              IF mapped_n = IndexError
              THEN [st |-> [st EXCEPT !.err = TRUE], bits |-> bits]
              ELSE LET old == IF n \in DOMAIN st.net_map THEN st.net_map[n] ELSE EmptyFn
                       st1 == [st EXCEPT !.net_map = Put(@, n, Put(old, DirKey(dir), mapped_n)),
                                         !.nets = @ \cup {mapped_n}]
                   IN SplitBits(pbits, k + 1, dir, st1, Append(bits, mapped_n))
         ELSE SplitBits(pbits, k + 1, dir, st, Append(bits, n))

\* for dir in ["input", "output"] for one inout port
RECURSIVE SplitDirections(_, _, _)
SplitDirections(port, d, st) ==
    IF d > Len(SplitDirs) \/ st.err THEN st
    ELSE LET dir == SplitDirs[d]
             new_name == port.name \o <<Suffix(dir)>>
             r == SplitBits(port.bits, 1, dir, st, <<>>)
         IN IF r.st.err THEN r.st
            ELSE SplitDirections(port, d + 1,
                    [r.st EXCEPT
                        !.port_map = Append(@, <<port.name, new_name>>),
                        !.new_ports = SetItem(@, [name |-> new_name,
                                                  direction |-> dir,
                                                  bits |-> r.bits])])

\* for name, port in inouts.items()
RECURSIVE SplitPorts(_, _, _)
SplitPorts(inouts, j, st) ==
    IF j > Len(inouts) \/ st.err THEN st
    ELSE LET port == inouts[j]
             st1 == [st EXCEPT !.ports = Delete(@, port.name),
                               !.nets = @ \ get_port_nets(port)]
         IN SplitPorts(inouts, j + 1, SplitDirections(port, 1, st1))

AllPortNets(ps) == UNION {get_port_nets(ps[i]) : i \in DOMAIN ps}
Inouts(ps) == SelectSeq(ps, LAMBDA p : p.direction = "inout")

SplitResult(ps) ==
    SplitPorts(Inouts(ps), 1,
               [nets |-> AllPortNets(ps), net_map |-> EmptyFn, new_ports |-> <<>>,
                port_map |-> <<>>, ports |-> ps, err |-> FALSE])

\* The netname cleanup (the second half of find_and_split_inout_ports).
\* RemapBits that leaves the remapped ids in place
RemapBits_keep(bits, nm) == bits
RemapBits(bits, nm) ==
    [i \in DOMAIN bits |-> IF bits[i] \in DOMAIN nm THEN Placeholder ELSE bits[i]]
NothingLeft(bits) == \A i \in DOMAIN bits : ~isinstance_int(bits[i])

CleanNetnames(nn, inouts, nm, new_ports) ==
    LET kept1 == DOMAIN nn \ Keys(inouts)
        kept2 == {k \in kept1 : ~NothingLeft(RemapBits(nn[k].bits, nm))}
    IN [k \in kept2 \cup Keys(new_ports) |->
          IF k \in Keys(new_ports)
          THEN [hide_name |-> 0, bits |-> Lookup(new_ports, k).bits]
          ELSE [nn[k] EXCEPT !.bits = RemapBits(@, nm)]]

find_and_split_inout_ports ==
    /\ pcA = "loaded"
    /\ LET r == SplitResult(ports) IN
       IF r.err
       THEN \* get_free_net raised: the module is left partially mutated
            /\ pcA' = "error"
            /\ ports' = r.ports
            /\ UNCHANGED <<netnames, net_map, port_map>>
       ELSE /\ pcA' = "split"
            /\ ports' = Update(r.ports, r.new_ports)
            /\ netnames' = CleanNetnames(netnames, Inouts(ports), r.net_map, r.new_ports)
            /\ net_map' = r.net_map
            /\ port_map' = r.port_map
    /\ UNCHANGED <<design0, cells, remaps, varsF, varsB>>

(***************************************************************************)
(* remap_connections                                                       *)
(***************************************************************************)
\* new_port_nets for one direction
RemapNets(port_nets, nm, dir) ==
    [i \in DOMAIN port_nets |->
        IF port_nets[i] \in DOMAIN nm THEN nm[port_nets[i]][DirKey(dir)]
        ELSE Placeholder]

\* for dir in ["input", "output"]: register the new connection and its direction
RECURSIVE AddSplitConnections(_, _, _, _, _)
AddSplitConnections(cell, port_name, port_nets, nm, d) ==
    IF d > Len(SplitDirs) THEN cell
    ELSE LET dir == SplitDirs[d]
             new_port_name == port_name \o <<Suffix(dir)>>
         IN AddSplitConnections(
                [cell EXCEPT
                    !.connections = SetItem(@, [name |-> new_port_name,
                                                bits |-> RemapNets(port_nets, nm, dir)]),
                    !.port_directions = Put(@, new_port_name, dir)],
                port_name, port_nets, nm, d + 1)

\* for port_name, port_nets in list(connections.items())
RECURSIVE RemapCell(_, _, _, _)
RemapCell(snapshot, k, cell, nm) ==
    IF k > Len(snapshot) THEN cell
    ELSE LET port_name == snapshot[k].name
             port_nets == snapshot[k].bits
         IN IF DOMAIN nm \cap Range(port_nets) = {}
            THEN RemapCell(snapshot, k + 1, cell, nm)
            ELSE LET c2 == AddSplitConnections(cell, port_name, port_nets, nm, 1)
                     c3 == [c2 EXCEPT !.connections = Delete(@, port_name),
                                      !.port_directions = Drop(@, port_name)]
                 IN RemapCell(snapshot, k + 1, c3, nm)

RemapCells(cs, nm) ==
    [c \in DOMAIN cs |-> RemapCell(cs[c].connections, 1, cs[c], nm)]

remap_connections ==
    /\ pcA \in {"split", "remapped"}
    /\ remaps < MaxRemapRuns
    /\ cells' = RemapCells(cells, net_map)
    /\ remaps' = remaps + 1
    /\ pcA' = "remapped"
    /\ UNCHANGED <<design0, ports, netnames, net_map, port_map, varsF, varsB>>

(***************************************************************************)
(* get_free_net on its own: ids are allocated one at a time, each added    *)
(* to the occupied set before the next call (split_inouts.py 130-136).     *)
(***************************************************************************)
Allocate ==
    /\ pcF = "run"
    /\ allocs < MaxAllocs
    /\ LET mapped_n == get_free_net(occupied) IN
       /\ lastFree' = mapped_n
       /\ prevOccupied' = occupied
       /\ allocs' = allocs + 1
       /\ IF mapped_n = IndexError
          THEN pcF' = "error" /\ occupied' = occupied
          ELSE pcF' = "run" /\ occupied' = occupied \cup {mapped_n}
    /\ UNCHANGED <<varsA, varsB>>

(***************************************************************************)
(* vpr_io_place.py                                                         *)
(***************************************************************************)
IsSplitTok(t) == t \in {"_$inp", "_$out"}
IsIndexTok(t) == t \in {"[0]", "[1]"}
Slice(s, a, b) == [i \in 1..(b - a + 1) |-> s[a + i - 1]]

\* INOUT_REGEX = ^(.+)(_\$inp|_\$out)(.*)$ : the first group is greedy, so
\* the suffix matched is the last one that has something before it.
INOUT_REGEX_matches(net) == \E i \in 2..Len(net) : IsSplitTok(net[i])
INOUT_REGEX_groups(net) ==
    LET i == CHOOSE j \in 2..Len(net) :
                 /\ IsSplitTok(net[j])
                 /\ \A l \in (j + 1)..Len(net) : ~IsSplitTok(net[l])
    IN <<Slice(net, 1, i - 1), <<net[i]>>, Slice(net, i + 1, Len(net))>>

\* NETNAME_REGEX = (.+?)(\[[0-9]+\]$|$) : the first group is lazy and not
\* empty, the second is an index that ends the name, or empty.
NETNAME_REGEX_groups(net) ==
    IF Len(net) >= 2 /\ IsIndexTok(net[Len(net)])
    THEN <<Slice(net, 1, Len(net) - 1), <<net[Len(net)]>>>>
    ELSE <<net, <<>>>>

\* the loop of read_io_list_from_eblif over one port name
AliasOf(net) ==
    IF INOUT_REGEX_matches(net)
    THEN INOUT_REGEX_groups(net)[1] \o INOUT_REGEX_groups(net)[3]
    ELSE net

\* The designs whose port lists are read: a plain input, a plain output and
\* two inout signals split by split_inouts.py, one of them a bit of a bus.
Signals ==
    << [kind |-> "input", base |-> <<"a">>, index |-> <<>>],
       [kind |-> "output", base |-> <<"o">>, index |-> <<>>],
       [kind |-> "inout", base |-> <<"b">>, index |-> <<>>],
       [kind |-> "inout", base |-> <<"d">>, index |-> <<"[0]">>] >>
PortName(sig, dir) ==
    IF sig.kind = "inout" THEN sig.base \o <<Suffix(dir)>> \o sig.index
    ELSE sig.base \o sig.index
BlifArgs(sigs, dir) ==
    {PortName(Signals[i], dir) : i \in {j \in sigs : Signals[j].kind \in {dir, "inout"}}}

read_io_list_from_eblif ==
    /\ pcB = "new"
    /\ \E sigs \in SUBSET DOMAIN Signals :
        /\ eblif' = sigs
        /\ inputs' = BlifArgs(sigs, "input")
        /\ outputs' = BlifArgs(sigs, "output")
        /\ io_net_map' = [net \in BlifArgs(sigs, "input") \cup BlifArgs(sigs, "output")
                             |-> AliasOf(net)]
        /\ inout_nets' = {AliasOf(net) :
                            net \in {n \in BlifArgs(sigs, "input") \cup BlifArgs(sigs, "output") :
                                        INOUT_REGEX_matches(n)}}
    /\ pcB' = "ready"
    /\ UNCHANGED <<net_to_block, constraints, rows, history, varsA, varsF>>

is_net(net) == net \in Range(io_net_map)

\* the name with the suffix put after the index
InoutConstraintName_suffixlast(net_name, prefix, suffix) ==
    prefix \o NETNAME_REGEX_groups(net_name)[1] \o NETNAME_REGEX_groups(net_name)[2]
           \o <<suffix>>
\* name = prefix + match.group(1) + suffix + match.group(2)
InoutConstraintName(net_name, prefix, suffix) ==
    prefix \o NETNAME_REGEX_groups(net_name)[1] \o <<suffix>>
           \o NETNAME_REGEX_groups(net_name)[2]

IoConstraint(name, loc, comment) ==
    [name |-> name, x |-> loc[1], y |-> loc[2], z |-> loc[3], comment |-> comment]

\* the body of constrain_net after its assertions
StoreConstraints(cs, net_name, loc, comment) ==
    LET name1 == IF net_name \in outputs THEN <<"out:">> \o net_name ELSE net_name IN
    IF name1 \in inout_nets
    THEN SetItem(SetItem(cs,
            IoConstraint(InoutConstraintName(name1, <<>>, "_$inp"), loc, comment)),
            IoConstraint(InoutConstraintName(name1, <<"out:">>, "_$out"), loc, comment))
    ELSE SetItem(cs, IoConstraint(name1, loc, comment))

Locs == {<<1, 2, 0>>, <<1, 2, 1>>}
Comments == {"", "set_io"}
CallNets == {Signals[i].base \o Signals[i].index : i \in DOMAIN Signals} \cup {<<"zz">>}

constrain_net ==
    /\ pcB = "ready"
    /\ Len(history) < MaxCalls
    /\ \E net_name \in CallNets, loc \in Locs, comment \in Comments :
        IF net_name \in Keys(constraints) \/ ~is_net(net_name)
        THEN \* an assertion fails
             /\ pcB' = "error"
             /\ history' = Append(history, [net |-> net_name, loc |-> loc,
                                            comment |-> comment, ok |-> FALSE])
             /\ UNCHANGED constraints
        ELSE /\ constraints' = StoreConstraints(constraints, net_name, loc, comment)
             /\ history' = Append(history, [net |-> net_name, loc |-> loc,
                                            comment |-> comment, ok |-> TRUE])
             /\ UNCHANGED pcB
    /\ UNCHANGED <<eblif, inputs, outputs, io_net_map, inout_nets, net_to_block, rows,
                   varsA, varsF>>

(***************************************************************************)
(* load_block_names_from_net_file.  The .net document is a sequence of     *)
(* block elements in document order, each [parent, name, instance]; parent *)
(* 0 is the root element.                                                  *)
(***************************************************************************)
RECURSIVE Depth(_, _)
Depth(tree, n) == IF tree[n].parent = 0 THEN 1 ELSE 1 + Depth(tree, tree[n].parent)

\* top_block = block.getparent(); while top_block.getparent() is not
\* net_root: top_block = top_block.getparent()
RECURSIVE Ascend(_, _)
Ascend(tree, top_block) ==
    IF tree[top_block].parent = 0 THEN top_block
    ELSE Ascend(tree, tree[top_block].parent)

IsPad(node) == node.instance \in {"outpad[0]", "inpad[0]"}

\* The three nested loops visit, in document order, the pads that lie below
\* a block two levels under the root.
RECURSIVE BlockNames(_, _, _)
BlockNames(tree, n, map) ==
    IF n > Len(tree) THEN map
    ELSE IF IsPad(tree[n]) /\ Depth(tree, n) >= 3
         THEN BlockNames(tree, n + 1,
                         Put(map, tree[n].name, tree[Ascend(tree, tree[n].parent)].name))
         ELSE BlockNames(tree, n + 1, map)

\* The .net documents read: the pads of the design packed in four ways.
Pads(sig) ==
    IF sig.kind = "input" THEN << [name |-> sig.base \o sig.index, instance |-> "inpad[0]"] >>
    ELSE IF sig.kind = "output"
    THEN << [name |-> <<"out:">> \o sig.base \o sig.index, instance |-> "outpad[0]"] >>
    ELSE << [name |-> PortName(sig, "input"), instance |-> "inpad[0]"],
            [name |-> <<"out:">> \o PortName(sig, "output"), instance |-> "outpad[0]"] >>

\* one top-level block per signal; its second pad lies one level deeper
SignalCluster(sig, at) ==
    << [parent |-> 0, name |-> Pads(sig)[1].name, instance |-> "io_tile[0]"],
       [parent |-> at + 1, name |-> <<"io">>, instance |-> "io[0]"],
       [parent |-> at + 2, name |-> Pads(sig)[1].name, instance |-> Pads(sig)[1].instance] >>
    \o (IF Len(Pads(sig)) = 1 THEN <<>>
        ELSE << [parent |-> at + 2, name |-> <<"slot">>, instance |-> "slot[1]"],
                [parent |-> at + 4, name |-> Pads(sig)[2].name,
                 instance |-> Pads(sig)[2].instance] >>)

\* one top-level block per pad
PadClusters(sig, at, only_inputs) ==
    LET one(pad, base) ==
            << [parent |-> 0, name |-> pad.name, instance |-> "io_tile[0]"],
               [parent |-> base + 1, name |-> <<"io">>, instance |-> "io[0]"],
               [parent |-> base + 2, name |-> pad.name, instance |-> pad.instance] >>
        kept == IF only_inputs
                THEN SelectSeq(Pads(sig), LAMBDA pad : pad.instance = "inpad[0]")
                ELSE Pads(sig)
    IN IF kept = <<>> THEN <<>>
       ELSE one(kept[1], at) \o (IF Len(kept) = 1 THEN <<>> ELSE one(kept[2], at + 3))

RECURSIVE NetFile(_, _, _, _)
NetFile(packing, sigs, i, tree) ==
    IF i > Len(Signals) THEN tree
    ELSE IF i \notin sigs THEN NetFile(packing, sigs, i + 1, tree)
    ELSE NetFile(packing, sigs, i + 1,
            tree \o (CASE packing = "per_signal" -> SignalCluster(Signals[i], Len(tree))
                       [] packing = "per_pad" -> PadClusters(Signals[i], Len(tree), FALSE)
                       [] packing = "inputs_only" -> PadClusters(Signals[i], Len(tree), TRUE)
                       [] OTHER -> \* every pad in the one top-level block
                            [k \in DOMAIN Pads(Signals[i]) |->
                                [parent |-> 2, name |-> Pads(Signals[i])[k].name,
                                 instance |-> Pads(Signals[i])[k].instance]]))
Packings == {"per_signal", "per_pad", "inputs_only", "one_tile"}
OneTile == << [parent |-> 0, name |-> <<"tile">>, instance |-> "io_tile[0]"],
              [parent |-> 1, name |-> <<"io">>, instance |-> "io[0]"] >>

load_block_names_from_net_file ==
    /\ pcB = "ready"
    /\ ~net_to_block.loaded
    /\ history = <<>>
    /\ \E packing \in Packings :
         net_to_block' =
            [loaded |-> TRUE,
             map |-> BlockNames(NetFile(packing, eblif, 1,
                                        IF packing = "one_tile" THEN OneTile ELSE <<>>),
                                1, EmptyFn)]
    /\ UNCHANGED <<eblif, inputs, outputs, io_net_map, inout_nets, constraints, rows,
                   history, pcB, varsA, varsF>>

(***************************************************************************)
(* output_io_place                                                         *)
(***************************************************************************)
None == <<>>

\* name = self.net_to_block.get(name) if self.net_to_block else name
BlockName(name) ==
    IF net_to_block.loaded /\ DOMAIN net_to_block.map # {}
    THEN IF name \in DOMAIN net_to_block.map THEN net_to_block.map[name] ELSE None
    ELSE name

SameLoc(c1, c2) == c1.x = c2.x /\ c1.y = c2.y /\ c1.z = c2.z

\* for vpr_net, constraint in self.constraints.items()
RECURSIVE EmitRows(_, _, _)
EmitRows(cs, k, st) ==
    IF k > Len(cs) THEN st
    ELSE LET constraint == cs[k]
             name == BlockName(constraint.name)
         IN IF name \in DOMAIN st.constrained_blocks
            THEN IF ~SameLoc(st.constrained_blocks[name], constraint)
                 THEN [st EXCEPT !.conflict = TRUE]       \* exit(-1)
                 ELSE EmitRows(cs, k + 1, st)             \* continue
            ELSE IF name # None
                 THEN EmitRows(cs, k + 1,
                        [st EXCEPT !.rows = Append(@, [constraint EXCEPT !.name = name]),
                                   !.constrained_blocks = Put(@, name, constraint)])
                 ELSE EmitRows(cs, k + 1, st)

output_io_place ==
    /\ pcB = "ready"
    /\ IF constraints = <<>>
       THEN \* max() of an empty sequence raises
            pcB' = "error" /\ UNCHANGED rows
       ELSE LET st == EmitRows(constraints, 1,
                        [rows |-> <<>>, constrained_blocks |-> EmptyFn, conflict |-> FALSE])
            IN /\ rows' = st.rows
               /\ pcB' = IF st.conflict THEN "conflict" ELSE "written"
    /\ UNCHANGED <<eblif, inputs, outputs, io_net_map, inout_nets, net_to_block,
                   constraints, history, varsA, varsF>>

(***************************************************************************)
(* The modules the model is run on.                                        *)
(***************************************************************************)
NetIds == 2..MaxNet
InternalNet == MaxNet + 1
BitVals == NetIds \cup {ConstOne}
\* A port is inout or not: the code tests nothing else of a direction, so
\* the ports that are not inout alternate between input and output.
OtherDirection(k) == IF k % 2 = 1 THEN "input" ELSE "output"
PortLetters == <<"A", "B", "C", "D", "E">>

\* bit lists of length lo..hi
BitSeqs(lo, hi) == UNION {[1..k -> BitVals] : k \in lo..hi}

\* The ports of a module, from the bits of all its ports in order and, for
\* each bit, whether it continues the port before it or starts a port.
Marks == {"cont", "other", "inout"}
RECURSIVE BuildPorts(_, _, _, _)
BuildPorts(allbits, mark, i, acc) ==
    IF i > Len(allbits) THEN acc
    ELSE IF mark[i] = "cont"
         THEN BuildPorts(allbits, mark, i + 1,
                         [acc EXCEPT ![Len(acc)].bits = Append(@, allbits[i])])
         ELSE BuildPorts(allbits, mark, i + 1,
                         Append(acc, [name |-> <<PortLetters[Len(acc) + 1]>>,
                                      direction |-> IF mark[i] = "inout" THEN "inout"
                                                    ELSE OtherDirection(Len(acc) + 1),
                                      bits |-> <<allbits[i]>>]))

\* Yosys writes a netname for every port
PortNetnames(ps) ==
    [k \in Keys(ps) |-> [hide_name |-> 0, bits |-> Lookup(ps, k).bits]]

IobufCell(io_bits) ==
    [iobuf |->
        [port_directions |-> (<<"IO">> :> "inout") @@ (<<"O">> :> "output"),
         connections |-> << [name |-> <<"IO">>, bits |-> io_bits],
                            [name |-> <<"O">>, bits |-> <<InternalNet>>] >>]]

IdleF ==
    /\ occupied = {} /\ prevOccupied = {} /\ lastFree = 0 /\ allocs = 0 /\ pcF = "idle"
IdleB ==
    /\ eblif = {} /\ inputs = {} /\ outputs = {} /\ io_net_map = EmptyFn
    /\ inout_nets = {} /\ net_to_block = [loaded |-> FALSE, map |-> EmptyFn]
    /\ constraints = <<>> /\ rows = <<>> /\ history = <<>> /\ pcB = "idle"
IdleA ==
    /\ design0 = <<>> /\ ports = <<>> /\ cells = <<>> /\ netnames = <<>>
    /\ net_map = <<>> /\ port_map = <<>> /\ remaps = 0 /\ pcA = "idle"

Loaded ==
    /\ design0 = [ports |-> ports, cells |-> cells, netnames |-> netnames]
    /\ net_map = EmptyFn /\ port_map = <<>> /\ remaps = 0 /\ pcA = "loaded"

\* modules that differ in their ports and in what one cell is connected to
InitCells ==
    /\ \E io \in BitSeqs(1, MaxTotalBits - 1) :
       \E t \in 1..(MaxTotalBits - Len(io)) :
       \E allbits \in [1..t -> BitVals], mark \in [1..t -> Marks] :
          /\ mark[1] # "cont"
          /\ ports = BuildPorts(allbits, mark, 1, <<>>)
          /\ cells = IobufCell(io)
          /\ netnames = PortNetnames(ports)
    /\ Loaded
    /\ IdleF /\ IdleB

\* modules that differ in their ports and in one netname of an internal wire
InitNames ==
    /\ \E wire \in {<<>>} \cup {<<w>> : w \in BitSeqs(0, MaxTotalBits - 1)} :
       \E t \in 1..(MaxTotalBits - (IF wire = <<>> THEN 0 ELSE Len(wire[1]))) :
       \E allbits \in [1..t -> BitVals], mark \in [1..t -> Marks] :
          /\ mark[1] # "cont"
          /\ ports = BuildPorts(allbits, mark, 1, <<>>)
          /\ cells = IobufCell(ports[Len(ports)].bits)
          /\ netnames = IF wire = <<>> THEN PortNetnames(ports)
                        ELSE Put(PortNetnames(ports), <<"w">>,
                                 [hide_name |-> 1, bits |-> wire[1]])
    /\ Loaded
    /\ IdleF /\ IdleB

InitFree ==
    /\ occupied \in SUBSET (0..MaxId)
    /\ prevOccupied = {} /\ lastFree = 0 /\ allocs = 0 /\ pcF = "run"
    /\ IdleA /\ IdleB

\* IoPlace.__init__
InitIo ==
    /\ eblif = {} /\ inputs = {} /\ outputs = {} /\ io_net_map = EmptyFn
    /\ inout_nets = {} /\ net_to_block = [loaded |-> FALSE, map |-> EmptyFn]
    /\ constraints = <<>> /\ rows = <<>> /\ history = <<>> /\ pcB = "new"
    /\ IdleA /\ IdleF

NextA == find_and_split_inout_ports \/ remap_connections
NextIo ==
    \/ read_io_list_from_eblif
    \/ load_block_names_from_net_file
    \/ constrain_net
    \/ output_io_place

Init == InitCells \/ InitNames \/ InitFree \/ InitIo
Next == NextA \/ Allocate \/ NextIo

Spec == Init /\ [][Next]_vars
SpecRemap == InitCells /\ [][NextA]_vars
SpecSplit == InitNames /\ [][find_and_split_inout_ports]_vars
SpecFree == InitFree /\ [][Allocate]_vars
SpecIo == InitIo /\ [][NextIo]_vars

(***************************************************************************)
(* Properties of find_and_split_inout_ports and remap_connections          *)
(***************************************************************************)
SplitDone == pcA \in {"split", "remapped"}
OrigInouts == Inouts(design0.ports)
OrigOthers == SelectSeq(design0.ports, LAMBDA p : p.direction # "inout")
InpName(name) == name \o <<"_$inp">>
OutName(name) == name \o <<"_$out">>
NewNames == {InpName(OrigInouts[j].name) : j \in DOMAIN OrigInouts}
            \cup {OutName(OrigInouts[j].name) : j \in DOMAIN OrigInouts}
InoutIds == UNION {{n \in Range(OrigInouts[j].bits) : n >= 0} : j \in DOMAIN OrigInouts}
ConnectionIds(cs) ==
    UNION {UNION {{n \in Range(cs[c].connections[e].bits) : n >= 0} :
                    e \in DOMAIN cs[c].connections} : c \in DOMAIN cs}
PreExistingIds ==
    UNION {{n \in Range(design0.ports[i].bits) : n >= 0} : i \in DOMAIN design0.ports}
    \cup ConnectionIds(design0.cells)

\* the places of the new ports that hold an allocated id
AllocSites ==
    {<<j, suffix, k>> \in (DOMAIN OrigInouts) \X {"_$inp", "_$out"} \X (1..MaxTotalBits) :
        k \in DOMAIN OrigInouts[j].bits /\ OrigInouts[j].bits[k] >= 0}
AllocatedId(site) ==
    Lookup(ports, OrigInouts[site[1]].name \o <<site[2]>>).bits[site[3]]

\* C1: every net id allocated for a new input or output port differs from
\* every other id allocated in the run and from every net id the module held
\* before the run, in the bits of any port or in any cell connection.
C1_AllocatedIdsAreFresh ==
    SplitDone =>
        /\ \A s1, s2 \in AllocSites : s1 # s2 => AllocatedId(s1) # AllocatedId(s2)
        /\ \A s1 \in AllocSites : AllocatedId(s1) \notin PreExistingIds

\* what the two ports made from inout port p must look like
AlignedWith(new, p, dir) ==
    /\ new.direction = dir
    /\ Len(new.bits) = Len(p.bits)
    /\ \A k \in DOMAIN p.bits :
          IF p.bits[k] >= 0 THEN new.bits[k] >= 0 ELSE new.bits[k] = p.bits[k]

\* C2: after the split no port is inout, and each removed inout port P is
\* replaced by exactly two ports, P_$inp (input) and P_$out (output), as long
\* as P, holding P's constant literals at their positions and a net id where
\* P held a net id.
C2_InoutPortsReplacedByAlignedPairs ==
    pcA = "split" =>
        /\ \A i \in DOMAIN ports : ports[i].direction # "inout"
        /\ Keys(ports) = Keys(OrigOthers) \cup NewNames
        /\ Len(ports) = Len(OrigOthers) + 2 * Len(OrigInouts)
        /\ \A i \in DOMAIN OrigOthers : Lookup(ports, OrigOthers[i].name) = OrigOthers[i]
        /\ \A j \in DOMAIN OrigInouts :
              /\ AlignedWith(Lookup(ports, InpName(OrigInouts[j].name)), OrigInouts[j], "input")
              /\ AlignedWith(Lookup(ports, OutName(OrigInouts[j].name)), OrigInouts[j], "output")

\* an inout port such as [3, "1", 7] has been split
C2_Witness ==
    /\ pcA = "split"
    /\ \E j \in DOMAIN OrigInouts :
          /\ Len(OrigInouts[j].bits) = 3
          /\ OrigInouts[j].bits[1] >= 0
          /\ OrigInouts[j].bits[2] = ConstOne
          /\ OrigInouts[j].bits[3] >= 0
          /\ Lookup(ports, InpName(OrigInouts[j].name)).bits[2] = ConstOne
    /\ Len(OrigOthers) > 0

ConnectionNames(cell) == Keys(cell.connections)
TouchesNetMap(bits) == \E k \in DOMAIN bits : bits[k] \in DOMAIN net_map

\* C3: after remap_connections every connection that held an original inout
\* net id is replaced by exactly two connections, <port>_$inp and
\* <port>_$out, with their port_directions entries; no connection of any cell
\* holds a key of the net map; so a second run changes no cell.
C3_RemapSplitsAndIsIdempotent ==
    pcA = "remapped" =>
        /\ \A c \in DOMAIN design0.cells :
           \A e \in DOMAIN design0.cells[c].connections :
              LET conn == design0.cells[c].connections[e] IN
              TouchesNetMap(conn.bits) =>
                 /\ conn.name \notin ConnectionNames(cells[c])
                 /\ conn.name \notin DOMAIN cells[c].port_directions
                 /\ InpName(conn.name) \in ConnectionNames(cells[c])
                 /\ OutName(conn.name) \in ConnectionNames(cells[c])
                 /\ InpName(conn.name) \in DOMAIN cells[c].port_directions
                 /\ OutName(conn.name) \in DOMAIN cells[c].port_directions
                 /\ cells[c].port_directions[InpName(conn.name)] = "input"
                 /\ cells[c].port_directions[OutName(conn.name)] = "output"
                 /\ Len(cells[c].connections) = Len(design0.cells[c].connections) + 1
        /\ \A c \in DOMAIN cells : \A e \in DOMAIN cells[c].connections :
              ~TouchesNetMap(cells[c].connections[e].bits)
        /\ RemapCells(cells, net_map) = cells

\* C7: on a module with no inout port the split returns an empty net map and
\* leaves ports, cells and netnames as they were.
C7_NoInoutIsNoOp ==
    (pcA = "split" /\ OrigInouts = <<>>) =>
        /\ net_map = EmptyFn
        /\ port_map = <<>>
        /\ ports = design0.ports
        /\ cells = design0.cells
        /\ netnames = design0.netnames

\* the bits a netname must have after the split
CleanedBits(bits) ==
    [k \in DOMAIN bits |-> IF bits[k] \in InoutIds THEN Placeholder ELSE bits[k]]

\* C9: after the split the netname named like a removed inout port is gone,
\* every other netname has each remapped id replaced by the placeholder and
\* is gone when no net id is left in it, each new port has a netname with
\* the port's bits, and no netname holds a remapped id that is in no port.
C9_NetnamesCleaned ==
    pcA = "split" =>
        /\ \A j \in DOMAIN OrigInouts : OrigInouts[j].name \notin DOMAIN netnames
        /\ \A name \in DOMAIN design0.netnames \ Keys(OrigInouts) :
              LET bits == CleanedBits(design0.netnames[name].bits) IN
              IF \E k \in DOMAIN bits : bits[k] >= 0
              THEN /\ name \in DOMAIN netnames
                   /\ netnames[name] = [design0.netnames[name] EXCEPT !.bits = bits]
              ELSE name \notin DOMAIN netnames
        /\ \A name \in NewNames :
              /\ name \in DOMAIN netnames
              /\ netnames[name].bits = Lookup(ports, name).bits
        /\ DOMAIN netnames \subseteq (DOMAIN design0.netnames \cup NewNames)
        /\ \A name \in DOMAIN netnames : \A k \in DOMAIN netnames[name].bits :
              netnames[name].bits[k] \in InoutIds
                 => netnames[name].bits[k] \in AllPortNets(ports)

\* the wire's netname survived with a remapped id replaced
C9_Witness ==
    /\ pcA = "split"
    /\ <<"w">> \in DOMAIN netnames
    /\ Placeholder \in Range(netnames[<<"w">>].bits)
    /\ Placeholder \notin Range(design0.netnames[<<"w">>].bits)
    /\ \E k \in DOMAIN netnames[<<"w">>].bits : netnames[<<"w">>].bits[k] >= 0

\* C10: the split completes without error on every module that has an inout
\* port with a net id, and its net map holds an input id and an output id
\* for every net id of every inout port.
C10_SplitCompletes ==
    (InoutIds # {}) =>
        /\ pcA # "error"
        /\ pcA = "split" =>
              \A n \in InoutIds : n \in DOMAIN net_map /\ DOMAIN net_map[n] = {"i", "o"}

(***************************************************************************)
(* get_free_net                                                            *)
(***************************************************************************)
\* c + 1 for the least c of S whose successor is not in S
FirstGapOrMaxPlusOne(S) ==
    (CHOOSE c \in S : c + 1 \notin S /\ \A x \in S : x < c => x + 1 \in S) + 1

\* C8: on a non-empty set S get_free_net returns an id not in S: c + 1 for
\* the first c of sorted S whose successor is not in S, max(S) + 1 when S
\* has no gap; {0,1,3} gives 2, {0,1,2} gives 3 and {5} gives 6.
C8_FreeNetIsFirstGap ==
    (allocs > 0 /\ prevOccupied # {}) =>
        /\ lastFree \notin prevOccupied
        /\ lastFree = FirstGapOrMaxPlusOne(prevOccupied)
        /\ prevOccupied = {0, 1, 3} => lastFree = 2
        /\ prevOccupied = {0, 1, 2} => lastFree = 3
        /\ prevOccupied = {5} => lastFree = 6
        /\ occupied = prevOccupied \cup {lastFree}

C8_Witness == allocs = 2 /\ prevOccupied = {0, 1, 2, 3} /\ lastFree = 4

(***************************************************************************)
(* Properties of IoPlace                                                   *)
(***************************************************************************)
SignalOf(net) == Signals[CHOOSE i \in DOMAIN Signals : Signals[i].base \o Signals[i].index = net]
InpKey(sig) == sig.base \o <<"_$inp">> \o sig.index
OutKey(sig) == <<"out:">> \o sig.base \o <<"_$out">> \o sig.index
PlainKey(sig) ==
    IF sig.kind = "output" THEN <<"out:">> \o sig.base \o sig.index ELSE sig.base \o sig.index
KeysOf(net) ==
    IF SignalOf(net).kind = "inout" THEN {InpKey(SignalOf(net)), OutKey(SignalOf(net))}
    ELSE {PlainKey(SignalOf(net))}
Accepted == {i \in DOMAIN history : history[i].ok}
LocOf(c) == <<c.x, c.y, c.z>>
FirstRegisteredLoc(block) ==
    LET regs == {i \in Accepted : \E key \in KeysOf(history[i].net) : BlockName(key) = block}
    IN history[CHOOSE i \in regs : \A l \in regs : i <= l].loc

\* C4: no two emitted rows carry the same block name; two stored constraints
\* of one block with different coordinates end the run in the conflict
\* error; the coordinates emitted for a block are those of the first
\* constraint registered for it.
C4_OneRowPerBlockFirstWins ==
    /\ pcB \in {"written", "conflict"} =>
          \A i, l \in DOMAIN rows : i # l => rows[i].name # rows[l].name
    /\ pcB = "written" =>
          /\ \A i, l \in DOMAIN constraints :
                (BlockName(constraints[i].name) = BlockName(constraints[l].name)
                    /\ BlockName(constraints[i].name) # None)
                 => SameLoc(constraints[i], constraints[l])
          /\ \A i \in DOMAIN rows : LocOf(rows[i]) = FirstRegisteredLoc(rows[i].name)

\* C5: a constrain_net call for a net that an earlier call constrained is
\* rejected with an error and leaves the constraint table unchanged.
C5_SecondConstraintRejected ==
    [][(/\ Len(history') = Len(history) + 1
        /\ \E i \in Accepted : history[i].net = history'[Len(history')].net)
       => (pcB' = "error" /\ constraints' = constraints)]_vars

RowsNamed(name) == {i \in DOMAIN rows : rows[i].name = name}

\* C6 as stated: a constrained inout alias always yields exactly two output
\* rows, <base>_$inp<index> and out:<base>_$out<index>, with the same x, y, z
\* and comment, and any other net exactly one row.
C6_TwoRowsPerAlias ==
    pcB = "written" =>
        \A i \in Accepted :
            LET sig == SignalOf(history[i].net) IN
            IF sig.kind = "inout"
            THEN /\ Cardinality(RowsNamed(InpKey(sig))) = 1
                 /\ Cardinality(RowsNamed(OutKey(sig))) = 1
                 /\ \A a \in RowsNamed(InpKey(sig)), b \in RowsNamed(OutKey(sig)) :
                       SameLoc(rows[a], rows[b]) /\ rows[a].comment = rows[b].comment
            ELSE Cardinality(RowsNamed(PlainKey(sig))) = 1

LastCallFor(net) ==
    LET calls == {i \in Accepted : history[i].net = net}
    IN history[CHOOSE i \in calls : \A l \in calls : l <= i]
StoredAs(key, call) ==
    /\ key \in Keys(constraints)
    /\ Lookup(constraints, key) = [name |-> key, x |-> call.loc[1], y |-> call.loc[2],
                                   z |-> call.loc[3], comment |-> call.comment]

\* C6 amended: a constrained inout alias always has exactly two stored
\* constraints, <base>_$inp<index> and out:<base>_$out<index>, with the x, y,
\* z and comment of the call, and any other net exactly one; they are the
\* output rows when no block names are loaded.
C6_TwoConstraintsPerAlias ==
    /\ \A i \in Accepted : \A key \in KeysOf(history[i].net) :
          StoredAs(key, LastCallFor(history[i].net))
    /\ Keys(constraints) = UNION {KeysOf(history[i].net) : i \in Accepted}
    /\ Len(constraints) = Cardinality(Keys(constraints))
    /\ (pcB = "written" /\ ~(net_to_block.loaded /\ DOMAIN net_to_block.map # {}))
          => rows = constraints

\* the bus bit d[0] was constrained and written without block names
C6_Witness ==
    /\ pcB = "written"
    /\ ~net_to_block.loaded
    /\ \E i \in Accepted : history[i].net = <<"d", "[0]">> /\ history[i].comment = "set_io"
    /\ \E i \in Accepted : history[i].net = <<"o">>
    /\ Len(rows) = 3
    /\ RowsNamed(<<"d", "_$inp", "[0]">>) # {}
    /\ RowsNamed(<<"out:", "d", "_$out", "[0]">>) # {}

====
